---------------------------- MODULE Spec2Model ----------------------------
(***************************************************************************)
(* A model of the static entropy coder of calebsander/rust-projects:       *)
(*   huffman/src/huffman.rs               HuffmanEncoding (build, encode,   *)
(*                                        decode)                           *)
(*   priority_queue/src/priority_queue.rs MaxHeap (push, next, peek)        *)
(*   bit_vector/src/bit_vector.rs         BitVector (push, pop, get, set,   *)
(*                                        fill, clear, extend, bytes)       *)
(* Each component has its own specification (SpecHuffman, SpecHeap,        *)
(* SpecBits); a specification leaves the other components' variables at    *)
(* their constructed values.                                               *)
(***************************************************************************)
EXTENDS Integers, Sequences, FiniteSets, TLC

VARIABLES
  \* ---- HuffmanEncoding (huffman.rs) ----
  hpc,            \* position of the codec's life: "new", "merge", "built", "encoded",
                  \* "decoded", "decode_done", "decoded_past"
  frequencies,    \* the HashMap<T, F> handed to from()
  by_frequency,   \* the BinaryHeap of UnrootedEncodingTree built by from()
  merges,         \* number of Inner nodes from() has pushed so far
  encodings,      \* HuffmanEncoding.encodings
  decode_tree,    \* HuffmanEncoding.decode_tree
  values,         \* the argument of the last encode()
  encoded,        \* what the last encode() returned
  decoded,        \* what the last decode() returned
  in_bits,        \* the bits argument of the last decode() of given bits
  in_count,       \* the count argument of the last decode() of given bits
  consumed,       \* number of bits the iterator of the last decode() has yielded
  calls,          \* the encode() and decode() calls that callers sharing the codec
                  \* have in progress: arguments, locals and what the call returned
  \* ---- MaxHeap (priority_queue.rs) ----
  heap,           \* MaxHeap.0, the backing Vec<T>
  contents,       \* history: the multiset of values pushed and not yet popped
  history,        \* history: the push and next calls so far, oldest first
  hop,            \* the last MaxHeap operation, what it returned and what it should have
  other,          \* the backing Vec<T> of a second MaxHeap, the one heap is compared with
  \* ---- BitVector (bit_vector.rs) ----
  len,            \* BitVector.len
  words,          \* BitVector.words
  abs,            \* history: the sequence of booleans the BitVector stands for
  bop,            \* the last BitVector operation, its arguments, what it returned and
                  \* what the abstract sequence returns (of a push: the bit the
                  \* backing words held at the index before it, if any)
  steps,          \* number of BitVector operations performed
  ub              \* history: an unchecked access went past the backing words

huffVars == <<hpc, frequencies, by_frequency, merges, encodings, decode_tree,
              values, encoded, decoded, in_bits, in_count, consumed, calls>>
callVars == <<in_bits, in_count, consumed, calls>>
heapVars == <<heap, contents, history, hop, other>>
bitsVars == <<len, words, abs, bop, steps, ub>>
vars == <<huffVars, heapVars, bitsVars>>

-----------------------------------------------------------------------------
(* Bounds of the model.                                                    *)

\* the symbol type T of the codec
Symbols == {"A", "B", "C", "D"}
\* weights of a frequency table are drawn from 0..MaxWeight
MaxWeight == 2
\* from_iter() is given corpora of at most this many symbols
MaxCorpusLen == 3
\* encode() is given at most this many symbols
MaxSeqLen == 2
\* decode() is given at most this many bits of its caller's choice
MaxBits == 3
\* decode() is asked for at most this many symbols of given bits
MaxCount == 2
\* a caller sharing the codec encodes, or asks decode() for, at most this
\* many symbols
MaxCallSyms == 1
\* a caller sharing the codec gives decode() this many bits
MaxCallBits == 2
\* the prefix-free codes the build's code is compared with have codewords
\* of at most this many bits
MaxCodeLen == 3
\* the values pushed into a MaxHeap are drawn from 1..MaxValue
MaxValue == 3
\* at most this many push and next calls are made on a MaxHeap
MaxHeapOps == 7
\* two MaxHeaps that are compared have had at most this many calls and
\* elements between them
MaxEqOps == 6
\* a BitVector is made by from_iter() of at most this many bits
MaxInitLen == 17
\* at most this many operations are made on a BitVector after that
MaxBitOps == 2
\* extend() is given at most this many bits
MaxExtendLen == 2
\* get() and set() are given indices of at most this many past len
MaxPast == 1

-----------------------------------------------------------------------------
(* Helpers shared by the components.                                       *)

RECURSIVE SeqsUpTo(_, _)
SeqsUpTo(S, n) ==
  IF n = 0 THEN {<<>>}
  ELSE SeqsUpTo(S, n - 1) \cup [1..n -> S]

\* the sum of f over the set S
RECURSIVE SumOver(_, _)
SumOver(f, S) ==
  IF S = {} THEN 0
  ELSE LET x == CHOOSE x \in S : TRUE IN f[x] + SumOver(f, S \ {x})

\* Option<T>
None == [some |-> FALSE, val |-> 0]
Some(v) == [some |-> TRUE, val |-> v]

\* the result of a call that may panic
Returned(v) == [panic |-> "", out |-> v]
Panicked(msg) == [panic |-> msg, out |-> <<>>]

-----------------------------------------------------------------------------
(* HuffmanEncoding                                                         *)

\* enum EncodingTree<T>
Leaf(c) == <<"Leaf", c>>
\* Inner with the two children exchanged
Inner_swapped(left, right) == <<"Inner", right, left>>

Inner(left, right) == <<"Inner", left, right>>
IsLeaf(tree) == tree[1] = "Leaf"

\* Option<EncodingTree<T>>::None
NoTree == <<>>

\* struct UnrootedEncodingTree<T, F>
UnrootedEncodingTree(tree, frequency) == [tree |-> tree, frequency |-> frequency]

\* an empty HashMap
EmptyMap == [c \in {} |-> <<>>]

\* HashMap::insert
Insert(map, k, v) == [x \in (DOMAIN map) \cup {k} |-> IF x = k THEN v ELSE map[x]]

\* add_bit(bits, bit): a copy of bits with bit pushed at its end
add_bit(bits, bit) == Append(bits, bit)

\* cmp without the reversal: the frequencies compared in their own order
cmp_unreversed(a, b) ==
  IF a.frequency < b.frequency THEN -1
  ELSE IF a.frequency = b.frequency THEN 0
  ELSE 1

\* cmp comparing an entry with itself: every two entries are Equal
cmp_self(a, b) ==
  IF a.frequency < a.frequency THEN -1
  ELSE IF a.frequency = a.frequency THEN 0
  ELSE 1

\* Ord for UnrootedEncodingTree: the comparison of the frequencies, reversed,
\* so that the greatest entry of the BinaryHeap is one of lowest frequency.
\* cmp(a, b) is -1, 0, 1 for Less, Equal, Greater.
cmp(a, b) ==
  IF b.frequency < a.frequency THEN -1
  ELSE IF b.frequency = a.frequency THEN 0
  ELSE 1

\* BinaryHeap::pop: the entries pop() may return, the greatest ones under cmp
\* (the standard library leaves the choice among equal entries open)
PopChoices(h) == {e \in h : \A o \in h : cmp(e, o) >= 0}

\* add_tree descending to the right child with the bit of the left child
RECURSIVE add_tree_samebit(_, _, _)
add_tree_samebit(enc, prefix, tree) ==
  IF IsLeaf(tree)
  THEN [map |-> Insert(enc.map, tree[2], prefix), ok |-> TRUE]
  ELSE add_tree_samebit(add_tree_samebit(enc, add_bit(prefix, FALSE), tree[2]),
                        add_bit(prefix, FALSE), tree[3])

\* add_tree giving the left child the true bit and the right child the false bit
RECURSIVE add_tree_swapped(_, _, _)
add_tree_swapped(enc, prefix, tree) ==
  IF IsLeaf(tree)
  THEN [map |-> Insert(enc.map, tree[2], prefix),
        ok  |-> enc.ok /\ tree[2] \notin DOMAIN enc.map]
  ELSE add_tree_swapped(add_tree_swapped(enc, add_bit(prefix, TRUE), tree[2]),
                        add_bit(prefix, FALSE), tree[3])

\* add_tree(prefix, tree), on a codec whose table is enc.map; enc.ok records
\* that no assert!(existing_encoding.is_none()) has failed
RECURSIVE add_tree(_, _, _)
add_tree(enc, prefix, tree) ==
  IF IsLeaf(tree)
  THEN [map |-> Insert(enc.map, tree[2], prefix),
        ok  |-> enc.ok /\ tree[2] \notin DOMAIN enc.map]
  ELSE add_tree(add_tree(enc, add_bit(prefix, FALSE), tree[2]),
                add_bit(prefix, TRUE), tree[3])

\* decode_one descending left on a true bit and right on a false bit
RECURSIVE decode_one_swapped(_, _)
decode_one_swapped(sub_tree, iter) ==
  IF IsLeaf(sub_tree) THEN [panic |-> "", c |-> sub_tree[2], iter |-> iter]
  ELSE IF iter = <<>> THEN [panic |-> "Encoding is not long enough", c |-> "", iter |-> iter]
  ELSE decode_one_swapped(IF Head(iter) THEN sub_tree[2] ELSE sub_tree[3], Tail(iter))

\* decode_one taking a bit of the iterator before it looks at the node
RECURSIVE decode_one_eager(_, _)
decode_one_eager(sub_tree, iter) ==
  IF iter = <<>> THEN [panic |-> "Encoding is not long enough", c |-> "", iter |-> iter]
  ELSE IF IsLeaf(sub_tree) THEN [panic |-> "", c |-> sub_tree[2], iter |-> Tail(iter)]
  ELSE decode_one_eager(IF Head(iter) THEN sub_tree[3] ELSE sub_tree[2], Tail(iter))

\* decode_one reading a false bit where the iterator has no bit left
RECURSIVE decode_one_default(_, _)
decode_one_default(sub_tree, iter) ==
  IF IsLeaf(sub_tree) THEN [panic |-> "", c |-> sub_tree[2], iter |-> iter]
  ELSE IF iter = <<>> THEN decode_one_default(sub_tree[2], iter)
  ELSE decode_one_default(IF Head(iter) THEN sub_tree[3] ELSE sub_tree[2], Tail(iter))

\* one pass of the closure of decode(): walk from sub_tree, taking one bit
\* of the iterator at every Inner node
RECURSIVE decode_one(_, _)
decode_one(sub_tree, iter) ==
  IF IsLeaf(sub_tree) THEN [panic |-> "", c |-> sub_tree[2], iter |-> iter]
  ELSE IF iter = <<>> THEN [panic |-> "Encoding is not long enough", c |-> "", iter |-> iter]
  ELSE decode_one(IF Head(iter) THEN sub_tree[3] ELSE sub_tree[2], Tail(iter))

\* decode_map handing every pass of the closure the iterator as it was at
\* the start of the call
RECURSIVE decode_map_rewind(_, _, _, _)
decode_map_rewind(tree, iter, count, acc) ==
  IF count = 0 THEN Returned(acc)
  ELSE LET r == decode_one(tree, iter)
       IN IF r.panic # "" THEN Panicked(r.panic)
          ELSE decode_map_rewind(tree, iter, count - 1, Append(acc, r.c))

RECURSIVE decode_map(_, _, _, _)
decode_map(tree, iter, count, acc) ==
  IF count = 0 THEN Returned(acc)
  ELSE LET r == decode_one(tree, iter)
       IN IF r.panic # "" THEN Panicked(r.panic)
          ELSE decode_map(tree, r.iter, count - 1, Append(acc, r.c))

\* the iterator bits.into_iter() of decode() when (0..count).map(..).collect()
\* stops: after count passes of the closure, or at the pass that panics
RECURSIVE decode_iter(_, _, _)
decode_iter(tree, iter, count) ==
  IF count = 0 THEN iter
  ELSE LET r == decode_one(tree, iter)
       IN IF r.panic # "" THEN r.iter
          ELSE decode_iter(tree, r.iter, count - 1)

\* the number of bits decode(bits, count) takes from its iterator
decode_consumed(tree, bits, count) ==
  IF count = 0 \/ tree = NoTree THEN 0
  ELSE Len(bits) - Len(decode_iter(tree, bits, count))

\* decode looking for the tree before it looks at the count
decode_expect_first(tree, bits, count) ==
  IF tree = NoTree THEN Panicked("No huffman tree generated")
  ELSE IF count = 0 THEN Returned(<<>>)
  ELSE decode_map(tree, bits, count, <<>>)

\* decode returning no symbols where the codec has no tree
decode_empty_ok(tree, bits, count) ==
  IF count = 0 THEN Returned(<<>>)
  ELSE IF tree = NoTree THEN Returned(<<>>)
  ELSE decode_map(tree, bits, count, <<>>)

\* HuffmanEncoding::decode(bits, count)
decode(tree, bits, count) ==
  IF count = 0 THEN Returned(<<>>)
  ELSE IF tree = NoTree THEN Panicked("No huffman tree generated")
  ELSE decode_map(tree, bits, count, <<>>)

\* encode leaving out the symbols that have no codeword
RECURSIVE encode_from_skip(_, _, _)
encode_from_skip(map, vals, bits) ==
  IF vals = <<>> THEN Returned(bits)
  ELSE IF Head(vals) \notin DOMAIN map THEN encode_from_skip(map, Tail(vals), bits)
  ELSE encode_from_skip(map, Tail(vals), bits \o map[Head(vals)])

\* the sequences of symbols encode() and encode_ref() are given, symbols
\* without a codeword among them, and the bits decode() is given
EncodeInputs == SeqsUpTo(Symbols, MaxSeqLen)
DecodeInputs == SeqsUpTo(BOOLEAN, MaxBits)

\* encode putting each codeword before the bits gathered so far
RECURSIVE encode_from_prepend(_, _, _)
encode_from_prepend(map, vals, bits) ==
  IF vals = <<>> THEN Returned(bits)
  ELSE IF Head(vals) \notin DOMAIN map THEN Panicked("no entry found for key")
  ELSE encode_from_prepend(map, Tail(vals), map[Head(vals)] \o bits)

\* HuffmanEncoding::encode(values): extend the bits by each symbol's
\* codeword; indexing the table by an absent key panics
RECURSIVE encode_from(_, _, _)
encode_from(map, vals, bits) ==
  IF vals = <<>> THEN Returned(bits)
  ELSE IF Head(vals) \notin DOMAIN map THEN Panicked("no entry found for key")
  ELSE encode_from(map, Tail(vals), bits \o map[Head(vals)])

encode(map, vals) == encode_from(map, vals, <<>>)

\* from_iter(corpus): the occurrence count of every symbol of the corpus
Counts(corpus) ==
  [c \in {corpus[i] : i \in DOMAIN corpus} |->
     Cardinality({i \in DOMAIN corpus : corpus[i] = c})]

FrequencyTables == UNION {[K -> 0..MaxWeight] : K \in SUBSET Symbols}

\* from(frequencies) pushing a leaf only for the symbols of non-zero weight
From_nonzero(table) ==
  /\ hpc = "new"
  /\ frequencies' = table
  /\ merges' = 0
  /\ IF DOMAIN table = {}
     THEN /\ hpc' = "built"
          /\ by_frequency' = {}
     ELSE /\ hpc' = "merge"
          /\ by_frequency' =
               {UnrootedEncodingTree(Leaf(c), table[c]) :
                  c \in {k \in DOMAIN table : table[k] # 0}}
  /\ UNCHANGED <<encodings, decode_tree, values, encoded, decoded>>
  /\ UNCHANGED <<callVars, heapVars, bitsVars>>

\* from(frequencies): up to the start of the merge loop
From(table) ==
  /\ hpc = "new"
  /\ frequencies' = table
  /\ merges' = 0
  /\ IF DOMAIN table = {}
     THEN /\ hpc' = "built"
          /\ by_frequency' = {}
     ELSE /\ hpc' = "merge"
          /\ by_frequency' =
               {UnrootedEncodingTree(Leaf(c), table[c]) : c \in DOMAIN table}
  /\ UNCHANGED <<encodings, decode_tree, values, encoded, decoded>>
  /\ UNCHANGED <<callVars, heapVars, bitsVars>>

FromTable == hpc = "new" /\ \E table \in FrequencyTables : From(table)

FromIter ==
  hpc = "new" /\ \E corpus \in SeqsUpTo(Symbols, MaxCorpusLen) : From(Counts(corpus))

\* the corpus of tests::test_example
ExampleText ==
  <<"A", "D", "E", "A", "D", "_", "D", "A", "D", "_", "C", "E", "D", "E",
    "D", "_", "A", "_", "B", "A", "D", "_", "B", "A", "B", "E", "_", "A",
    "_", "B", "E", "A", "D", "E", "D", "_", "A", "B", "A", "C", "A", "_",
    "B", "E", "D">>

\* the bits tests::test_example expects encode() to return, '1' as TRUE
ExampleBits ==
  [i \in 1..113 |->
     <<1, 0, 0, 1, 1, 1, 0, 1, 0, 0, 1, 0, 0, 0, 1, 1, 0, 0, 1, 0, 0, 1, 1,
       1, 0, 1, 1, 0, 0, 1, 1, 1, 0, 0, 1, 0, 0, 1, 0, 0, 0, 1, 1, 1, 1, 1,
       0, 0, 1, 0, 0, 1, 1, 1, 1, 1, 0, 1, 1, 1, 1, 1, 1, 0, 0, 0, 1, 0, 0,
       0, 1, 1, 1, 1, 1, 1, 0, 1, 0, 0, 1, 1, 1, 0, 0, 1, 0, 0, 1, 0, 1, 1,
       1, 1, 1, 0, 1, 1, 1, 0, 1, 0, 0, 0, 1, 1, 1, 1, 1, 1, 0, 0, 1>>[i] = 1]

\* HuffmanEncoding::from_iter(text.chars()) of tests::test_example
FromExample == From(Counts(ExampleText))

\* the merge loop popping two entries and pushing nothing back
Merge_drop ==
  /\ hpc = "merge"
  /\ \E left \in PopChoices(by_frequency) :
       \E right \in PopChoices(by_frequency \ {left}) :
         by_frequency' = by_frequency \ {left, right}
  /\ merges' = merges + 1
  /\ UNCHANGED <<hpc, frequencies, encodings, decode_tree, values, encoded, decoded>>
  /\ UNCHANGED <<callVars, heapVars, bitsVars>>

\* one pass of the loop of from() in which the second pop() returns Some(right)
Merge ==
  /\ hpc = "merge"
  /\ \E left \in PopChoices(by_frequency) :
       \E right \in PopChoices(by_frequency \ {left}) :
         by_frequency' = (by_frequency \ {left, right}) \cup
           {UnrootedEncodingTree(Inner(left.tree, right.tree),
                                 left.frequency + right.frequency)}
  /\ merges' = merges + 1
  /\ UNCHANGED <<hpc, frequencies, encodings, decode_tree, values, encoded, decoded>>
  /\ UNCHANGED <<callVars, heapVars, bitsVars>>

\* the last pass of the loop, in which the second pop() returns None, and the
\* rest of from(): add_tree from the root and decode_tree = Some(root)
Finish ==
  /\ hpc = "merge"
  /\ \E left \in PopChoices(by_frequency) :
       /\ by_frequency \ {left} = {}
       /\ LET enc == add_tree([map |-> EmptyMap, ok |-> TRUE], <<>>, left.tree)
          IN /\ encodings' = enc.map
             /\ hpc' = IF enc.ok THEN "built" ELSE "assert_failed"
       /\ decode_tree' = left.tree
       /\ by_frequency' = {}
  /\ UNCHANGED <<frequencies, merges, values, encoded, decoded>>
  /\ UNCHANGED <<callVars, heapVars, bitsVars>>

\* encode(values) on the built codec
Encode ==
  /\ hpc = "built"
  /\ \E vals \in EncodeInputs :
       /\ values' = vals
       /\ encoded' = encode(encodings, vals)
  /\ hpc' = "encoded"
  /\ UNCHANGED <<frequencies, by_frequency, merges, encodings, decode_tree, decoded>>
  /\ UNCHANGED <<callVars, heapVars, bitsVars>>

\* HuffmanEncoding::encode_ref(values): encode() on borrowed symbols
RECURSIVE encode_ref_from(_, _, _)
encode_ref_from(map, vals, bits) ==
  IF vals = <<>> THEN Returned(bits)
  ELSE IF Head(vals) \notin DOMAIN map THEN Panicked("no entry found for key")
  ELSE encode_ref_from(map, Tail(vals), bits \o map[Head(vals)])

encode_ref(map, vals) == encode_ref_from(map, vals, <<>>)

\* encode_ref(values) on the built codec
EncodeRef ==
  /\ hpc = "built"
  /\ \E vals \in EncodeInputs :
       /\ values' = vals
       /\ encoded' = encode_ref(encodings, vals)
  /\ hpc' = "encoded"
  /\ UNCHANGED <<frequencies, by_frequency, merges, encodings, decode_tree, decoded>>
  /\ UNCHANGED <<callVars, heapVars, bitsVars>>

\* huffman_tree.encode(text.chars()) of tests::test_example
EncodeExample ==
  /\ hpc = "built"
  /\ frequencies = Counts(ExampleText)
  /\ values' = ExampleText
  /\ encoded' = encode(encodings, ExampleText)
  /\ hpc' = "encoded"
  /\ UNCHANGED <<frequencies, by_frequency, merges, encodings, decode_tree, decoded>>
  /\ UNCHANGED <<callVars, heapVars, bitsVars>>

\* decode(encoded, values.len()), as test_example does with what encode returned
DecodeEncoded ==
  /\ hpc = "encoded"
  /\ encoded.panic = ""
  /\ decoded' = decode(decode_tree, encoded.out, Len(values))
  /\ consumed' = decode_consumed(decode_tree, encoded.out, Len(values))
  /\ hpc' = "decoded"
  /\ UNCHANGED <<frequencies, by_frequency, merges, encodings, decode_tree, values, encoded>>
  /\ UNCHANGED <<in_bits, in_count, calls>>
  /\ UNCHANGED <<heapVars, bitsVars>>

\* the bits a caller may append to what encode() returned
ExtraBits == {<<FALSE>>, <<TRUE>>}

\* decode(bits, values.len()) of what encode(values) returned followed by
\* more bits
DecodePast ==
  /\ hpc = "encoded"
  /\ encoded.panic = ""
  /\ \E extra \in ExtraBits :
       /\ in_bits' = encoded.out \o extra
       /\ in_count' = Len(values)
       /\ decoded' = decode(decode_tree, encoded.out \o extra, Len(values))
       /\ consumed' = decode_consumed(decode_tree, encoded.out \o extra, Len(values))
  /\ hpc' = "decoded_past"
  /\ UNCHANGED <<frequencies, by_frequency, merges, encodings, decode_tree, values, encoded>>
  /\ UNCHANGED calls
  /\ UNCHANGED <<heapVars, bitsVars>>

\* decode(bits, count) of bits and a count of the caller's choice
Decode ==
  /\ hpc = "built"
  /\ \E bits \in DecodeInputs :
       \E count \in 0..MaxCount :
         /\ in_bits' = bits
         /\ in_count' = count
         /\ decoded' = decode(decode_tree, bits, count)
         /\ consumed' = decode_consumed(decode_tree, bits, count)
  /\ hpc' = "decode_done"
  /\ UNCHANGED <<frequencies, by_frequency, merges, encodings, decode_tree, values, encoded>>
  /\ UNCHANGED calls
  /\ UNCHANGED <<heapVars, bitsVars>>

\* the callers that hold a shared reference to the codec
Callers == {1, 2}

\* a caller that has not called the codec
Idle ==
  [op |-> "idle", pc |-> "idle", vals |-> <<>>, bits |-> <<>>, count |-> 0,
   rest |-> <<>>, out |-> <<>>, path |-> <<>>, ret |-> Returned(<<>>)]

HuffInit ==
  /\ hpc = "new"
  /\ frequencies = EmptyMap
  /\ by_frequency = {}
  /\ merges = 0
  /\ encodings = EmptyMap
  /\ decode_tree = NoTree
  /\ values = <<>>
  /\ encoded = Returned(<<>>)
  /\ decoded = Returned(<<>>)
  /\ in_bits = <<>>
  /\ in_count = 0
  /\ consumed = 0
  /\ calls = [t \in Callers |-> Idle]

HeapInit ==
  /\ heap = <<>>
  /\ other = <<>>
  /\ contents = [x \in 1..MaxValue |-> 0]
  /\ history = <<>>
  /\ hop = [op |-> "new", ret |-> None, expect |-> None]

BitsInit ==
  /\ len = 0
  /\ words = <<>>
  /\ abs = <<>>
  /\ bop = [op |-> "new", index |-> 0, value |-> FALSE, ret |-> None, expect |-> None]
  /\ steps = 0
  /\ ub = FALSE

Init == HuffInit /\ HeapInit /\ BitsInit

HuffNext ==
  \/ FromTable
  \/ FromIter
  \/ FromExample
  \/ Merge
  \/ Finish
  \/ Encode
  \/ EncodeRef
  \/ EncodeExample
  \/ DecodeEncoded
  \/ Decode

SpecHuffman == Init /\ [][HuffNext]_vars

\* a codec is built and decodes bits of the caller's choice, or encodes and
\* decodes what it encoded, alone or with more bits behind it
PastNext ==
  \/ FromTable
  \/ FromIter
  \/ FromExample
  \/ Merge
  \/ Finish
  \/ Encode
  \/ DecodeEncoded
  \/ DecodePast
  \/ Decode

SpecPast == Init /\ [][PastNext]_vars

\* the build alone: from() runs its loop to the end once it is called
BuildNext ==
  \/ FromTable
  \/ FromIter
  \/ FromExample
  \/ Merge
  \/ Finish

SpecBuild == Init /\ [][BuildNext]_vars /\ WF_vars(Merge \/ Finish)

-----------------------------------------------------------------------------
(* HuffmanEncoding behind a shared reference: encode(&self, ..) and        *)
(* decode(&self, ..) of several callers, a step for every pass of a loop   *)

\* the values a caller encodes and the bits a caller decodes
CallValues == SeqsUpTo(Symbols, MaxCallSyms)
CallBits == [i \in 1..MaxCallBits |-> i % 2 = 1]

\* what the callers' steps leave alone
CallFrame ==
  /\ UNCHANGED <<hpc, frequencies, by_frequency, merges, encodings, decode_tree,
                 values, encoded, decoded, in_bits, in_count, consumed>>
  /\ UNCHANGED <<heapVars, bitsVars>>

\* the call of encode(values) on the shared codec
CallEncode(t) ==
  /\ hpc = "built"
  /\ calls[t].op = "idle"
  /\ \E vals \in CallValues :
       calls' = [calls EXCEPT ![t] =
                   [Idle EXCEPT !.op = "encode", !.pc = "run", !.vals = vals, !.rest = vals]]
  /\ CallFrame

\* one pass of the loop of encode taking the codeword out of the shared table
EncodeLoop_remove(t) ==
  /\ calls[t].op = "encode"
  /\ calls[t].pc = "run"
  /\ LET c == calls[t]
     IN IF c.rest = <<>>
        THEN /\ calls' = [calls EXCEPT ![t].pc = "done", ![t].ret = Returned(c.out)]
             /\ UNCHANGED encodings
        ELSE IF Head(c.rest) \notin DOMAIN encodings
        THEN /\ calls' = [calls EXCEPT ![t].pc = "done",
                                       ![t].ret = Panicked("no entry found for key")]
             /\ UNCHANGED encodings
        ELSE /\ calls' = [calls EXCEPT ![t].out = c.out \o encodings[Head(c.rest)],
                                       ![t].rest = Tail(c.rest)]
             /\ encodings' = [k \in DOMAIN encodings \ {Head(c.rest)} |-> encodings[k]]
  /\ UNCHANGED <<hpc, frequencies, by_frequency, merges, decode_tree,
                 values, encoded, decoded, in_bits, in_count, consumed>>
  /\ UNCHANGED <<heapVars, bitsVars>>

\* one pass of the loop of encode: bits.extend(&self.encodings[&c]), or the
\* return of bits when the values are used up
EncodeLoop(t) ==
  /\ calls[t].op = "encode"
  /\ calls[t].pc = "run"
  /\ LET c == calls[t]
     IN IF c.rest = <<>>
        THEN calls' = [calls EXCEPT ![t].pc = "done", ![t].ret = Returned(c.out)]
        ELSE IF Head(c.rest) \notin DOMAIN encodings
        THEN calls' = [calls EXCEPT ![t].pc = "done",
                                    ![t].ret = Panicked("no entry found for key")]
        ELSE calls' = [calls EXCEPT ![t].out = c.out \o encodings[Head(c.rest)],
                                    ![t].rest = Tail(c.rest)]
  /\ CallFrame

\* the call of decode(bits, count) on the shared codec, up to its closure
CallDecode(t) ==
  /\ hpc = "built"
  /\ calls[t].op = "idle"
  /\ \E count \in 0..MaxCallSyms :
       LET c == [Idle EXCEPT !.op = "decode", !.bits = CallBits, !.count = count,
                             !.rest = CallBits]
       IN calls' = [calls EXCEPT ![t] =
            IF count = 0 THEN [c EXCEPT !.pc = "done", !.ret = Returned(<<>>)]
            ELSE IF decode_tree = NoTree
            THEN [c EXCEPT !.pc = "done", !.ret = Panicked("No huffman tree generated")]
            ELSE [c EXCEPT !.pc = "run"]]
  /\ CallFrame

RECURSIVE Descend(_, _)
\* the node of the shared tree that sub_tree refers to after the walk along path
Descend(tree, path) ==
  IF path = <<>> THEN tree
  ELSE Descend(IF Head(path) THEN tree[3] ELSE tree[2], Tail(path))

\* one pass of the loop of the closure of decode: at a Leaf the symbol is
\* returned to collect(), at an Inner node the next bit chooses the child
DecodeWalk(t) ==
  /\ calls[t].op = "decode"
  /\ calls[t].pc = "run"
  /\ LET c == calls[t]
         sub_tree == Descend(decode_tree, c.path)
     IN IF Len(c.out) = c.count
        THEN calls' = [calls EXCEPT ![t].pc = "done", ![t].ret = Returned(c.out)]
        ELSE IF IsLeaf(sub_tree)
        THEN calls' = [calls EXCEPT ![t].out = Append(c.out, sub_tree[2]),
                                    ![t].path = <<>>]
        ELSE IF c.rest = <<>>
        THEN calls' = [calls EXCEPT ![t].pc = "done",
                                    ![t].ret = Panicked("Encoding is not long enough")]
        ELSE calls' = [calls EXCEPT ![t].path = Append(c.path, Head(c.rest)),
                                    ![t].rest = Tail(c.rest)]
  /\ CallFrame

SharedEncode == \E t \in Callers : CallEncode(t)
SharedEncodeLoop == \E t \in Callers : EncodeLoop(t)
SharedDecode == \E t \in Callers : CallDecode(t)
SharedDecodeWalk == \E t \in Callers : DecodeWalk(t)

SharedNext ==
  \/ FromIter
  \/ Merge
  \/ Finish
  \/ SharedEncode
  \/ SharedEncodeLoop
  \/ SharedDecode
  \/ SharedDecodeWalk

SpecShared == Init /\ [][SharedNext]_vars


-----------------------------------------------------------------------------
(* MaxHeap                                                                 *)

\* the element at index i of a Vec, indices from 0 as in the source
At(v, i) == v[i + 1]

\* Vec::swap
Swap(v, i, j) ==
  [k \in DOMAIN v |-> IF k = i + 1 THEN v[j + 1] ELSE IF k = j + 1 THEN v[i + 1] ELSE v[k]]

\* Vec::swap_remove: the element at index i is replaced by the last one
swap_remove(v, i) ==
  LET last == v[Len(v)]
      rest == SubSeq(v, 1, Len(v) - 1)
  IN IF i = Len(v) - 1 THEN rest ELSE [rest EXCEPT ![i + 1] = last]

ROOT_INDEX == 0
get_left_child(index) == (index * 2) + 1
get_right_sibling(index) == index + 1
\* get_parent halving the index itself
get_parent_half(index) == index \div 2

get_parent(index) == (index - 1) \div 2

\* the loop of next() with the left child always taken as the greater child
RECURSIVE sift_down_left(_, _)
sift_down_left(v, current_index) ==
  LET left_child_index == get_left_child(current_index)
  IN IF left_child_index >= Len(v) THEN v
     ELSE IF At(v, current_index) >= At(v, left_child_index) THEN v
     ELSE sift_down_left(Swap(v, current_index, left_child_index), left_child_index)

\* the loop of next(): the element at current_index goes down, swapped with
\* its greater child, until it is no less than both children or has none
RECURSIVE sift_down(_, _)
sift_down(v, current_index) ==
  LET left_child_index == get_left_child(current_index)
  IN IF left_child_index >= Len(v) THEN v
     ELSE LET right_child_index == get_right_sibling(left_child_index)
              max_child_index ==
                IF /\ right_child_index < Len(v)
                   /\ At(v, right_child_index) > At(v, left_child_index)
                THEN right_child_index
                ELSE left_child_index
          IN IF At(v, current_index) >= At(v, max_child_index) THEN v
             ELSE sift_down(Swap(v, current_index, max_child_index), max_child_index)

\* the loop of push() stopping after one comparison with the parent
sift_up_once(v, current_index) ==
  IF current_index = ROOT_INDEX THEN v
  ELSE LET parent_index == get_parent(current_index)
       IN IF At(v, parent_index) >= At(v, current_index) THEN v
          ELSE Swap(v, current_index, parent_index)

\* the loop of push(): the element at current_index goes up, swapped with its
\* parent, until the parent is no less or the root is reached
RECURSIVE sift_up(_, _)
sift_up(v, current_index) ==
  IF current_index = ROOT_INDEX THEN v
  ELSE LET parent_index == get_parent(current_index)
       IN IF At(v, parent_index) >= At(v, current_index) THEN v
          ELSE sift_up(Swap(v, current_index, parent_index), parent_index)

\* MaxHeap::len, MaxHeap::is_empty
heap_len(v) == Len(v)
heap_is_empty(v) == Len(v) = 0

\* the multiset of values: how often each occurs
BagOf(v) == [x \in 1..MaxValue |-> Cardinality({i \in DOMAIN v : v[i] = x})]
BagSize(b) == SumOver(b, DOMAIN b)
BagMax(b) == CHOOSE x \in DOMAIN b : b[x] > 0 /\ \A y \in DOMAIN b : b[y] > 0 => y <= x

\* push appending the value without moving it up
Push_unsifted(value) ==
  /\ Len(history) < MaxHeapOps
  /\ heap' = Append(heap, value)
  /\ contents' = [contents EXCEPT ![value] = @ + 1]
  /\ hop' = [op |-> "push", ret |-> None, expect |-> None]
  /\ history' = Append(history, [op |-> "push", v |-> value])
  /\ UNCHANGED <<other, huffVars, bitsVars>>

\* MaxHeap::push(value)
Push(value) ==
  /\ Len(history) < MaxHeapOps
  /\ heap' = sift_up(Append(heap, value), Len(heap))
  /\ contents' = [contents EXCEPT ![value] = @ + 1]
  /\ hop' = [op |-> "push", ret |-> None, expect |-> None]
  /\ history' = Append(history, [op |-> "push", v |-> value])
  /\ UNCHANGED <<other, huffVars, bitsVars>>

HeapPush == \E value \in 1..MaxValue : Push(value)

\* Iterator::next on an empty heap
NextEmpty ==
  /\ Len(history) < MaxHeapOps
  /\ heap_is_empty(heap)
  /\ hop' = [op |-> "next", ret |-> None,
             expect |-> IF BagSize(contents) = 0 THEN None ELSE Some(BagMax(contents))]
  /\ history' = Append(history, [op |-> "next", v |-> 0])
  /\ UNCHANGED <<heap, contents>>
  /\ UNCHANGED <<other, huffVars, bitsVars>>

\* Iterator::next on a heap that holds an element
NextSome ==
  /\ Len(history) < MaxHeapOps
  /\ ~heap_is_empty(heap)
  /\ LET result == At(heap, ROOT_INDEX)
     IN /\ heap' = sift_down(swap_remove(heap, ROOT_INDEX), ROOT_INDEX)
        /\ hop' = [op |-> "next", ret |-> Some(result),
                   expect |-> IF BagSize(contents) = 0 THEN None ELSE Some(BagMax(contents))]
        /\ history' = Append(history, [op |-> "next", v |-> result])
  /\ contents' = IF BagSize(contents) = 0 THEN contents
                 ELSE [contents EXCEPT ![BagMax(contents)] = @ - 1]
  /\ UNCHANGED <<other, huffVars, bitsVars>>

\* peek returning the last element of the Vec
peek_last(v) == IF v = <<>> THEN None ELSE Some(v[Len(v)])

\* MaxHeap::peek: self.0.first()
peek(v) == IF v = <<>> THEN None ELSE Some(At(v, ROOT_INDEX))

\* peek() on the heap; it is not a call history counts
HeapPeek ==
  /\ Len(history) < MaxHeapOps
  /\ hop' = [op |-> "peek", ret |-> peek(heap),
             expect |-> IF BagSize(contents) = 0 THEN None ELSE Some(BagMax(contents))]
  /\ UNCHANGED <<heap, contents, history>>
  /\ UNCHANGED <<other, huffVars, bitsVars>>

HeapNext ==
  \/ HeapPush
  \/ NextEmpty
  \/ NextSome
  \/ HeapPeek

SpecHeap == Init /\ [][HeapNext]_vars

-----------------------------------------------------------------------------
(* two MaxHeaps, heap and other, and their comparison                      *)

RECURSIVE drain(_)
\* the values the iterator of a clone of the heap returns until None
drain(v) ==
  IF heap_is_empty(v) THEN <<>>
  ELSE <<At(v, ROOT_INDEX)>> \o drain(sift_down(swap_remove(v, ROOT_INDEX), ROOT_INDEX))

\* eq comparing the backing Vecs
eq_vec(a, b) == a = b

\* PartialEq::eq: the lengths are equal and the zipped iterators of the
\* clones return equal values
eq(a, b) ==
  /\ heap_len(a) = heap_len(b)
  /\ \A i \in 1..(IF Len(drain(a)) < Len(drain(b)) THEN Len(drain(a)) ELSE Len(drain(b))) :
       drain(a)[i] = drain(b)[i]

EqCanStep == Len(history) + Len(other) < MaxEqOps

EqSelfPush == EqCanStep /\ HeapPush
EqSelfNextEmpty == EqCanStep /\ NextEmpty
EqSelfNextSome == EqCanStep /\ NextSome

\* other.push(value)
EqOtherPush ==
  /\ EqCanStep
  /\ \E value \in 1..MaxValue :
       other' = sift_up(Append(other, value), Len(other))
  /\ hop' = [op |-> "other.push", ret |-> None, expect |-> None]
  /\ UNCHANGED <<heap, contents, history>>
  /\ UNCHANGED <<huffVars, bitsVars>>

\* other.next() on a second heap that holds an element
EqOtherNext ==
  /\ ~heap_is_empty(other)
  /\ other' = sift_down(swap_remove(other, ROOT_INDEX), ROOT_INDEX)
  /\ hop' = [op |-> "other.next", ret |-> Some(At(other, ROOT_INDEX)),
             expect |-> Some(At(other, ROOT_INDEX))]
  /\ UNCHANGED <<heap, contents, history>>
  /\ UNCHANGED <<huffVars, bitsVars>>

\* heap == other
HeapEq ==
  /\ hop' = [op |-> "eq", ret |-> Some(eq(heap, other)),
             expect |-> Some(BagOf(heap) = BagOf(other))]
  /\ UNCHANGED <<heap, other, contents, history>>
  /\ UNCHANGED <<huffVars, bitsVars>>

HeapEqNext ==
  \/ EqSelfPush
  \/ EqSelfNextEmpty
  \/ EqSelfNextSome
  \/ EqOtherPush
  \/ EqOtherNext
  \/ HeapEq

SpecHeapEq == Init /\ [][HeapEqNext]_vars

-----------------------------------------------------------------------------
(* BitVector                                                               *)

\* WORD_BITS = size_of::<usize>() * 8, here the usize of a 16-bit target, the
\* narrowest the language has; LOG_WORD_BITS = WORD_BITS.trailing_zeros()
WORD_BITS == 16
LOG_WORD_BITS == 4

Pow2(n) == 2 ^ n

\* the bitwise operators of usize and u8, on numbers of `width` bits
RECURSIVE BitAnd(_, _)
BitAnd(x, y) ==
  IF x = 0 \/ y = 0 THEN 0
  ELSE (x % 2) * (y % 2) + 2 * BitAnd(x \div 2, y \div 2)

RECURSIVE BitOr(_, _)
BitOr(x, y) ==
  IF x = 0 THEN y
  ELSE IF y = 0 THEN x
  ELSE (IF x % 2 = 1 \/ y % 2 = 1 THEN 1 ELSE 0) + 2 * BitOr(x \div 2, y \div 2)

BitNot(x, width) == Pow2(width) - 1 - x
Shr(x, n) == x \div Pow2(n)
Shl(x, n, width) == (x * Pow2(n)) % Pow2(width)

\* value as usize
AsUsize(value) == IF value THEN 1 ELSE 0

to_word_index(bit_index) == Shr(bit_index, LOG_WORD_BITS)
to_word_offset(bit_index) == BitAnd(bit_index, WORD_BITS - 1) % Pow2(8)
to_words_ceil(bits) ==
  to_word_index(bits) + (IF to_word_offset(bits) > 0 THEN 1 ELSE 0)
\* -(value as isize) as usize
fill_word(value) == (0 - AsUsize(value)) % Pow2(WORD_BITS)

\* a BitVector value
BitVector(l, w) == [len |-> l, words |-> w, ub |-> FALSE]

\* BitVector::new
new == BitVector(0, <<>>)

\* words.get_unchecked(word_index): outside the backing words the read is
\* undefined, which the ub mark of the result records
InWords(bv, word_index) == word_index < Len(bv.words)

\* BitVector::get_unchecked
get_unchecked(bv, index) ==
  LET word_index == to_word_index(index)
      word_offset == to_word_offset(index)
  IN BitAnd(Shr(bv.words[word_index + 1], word_offset), 1) > 0

\* BitVector::get
get(bv, index) ==
  IF index >= bv.len THEN None
  ELSE IF ~InWords(bv, to_word_index(index)) THEN [some |-> TRUE, val |-> "undefined"]
  ELSE Some(get_unchecked(bv, index))

\* BitVector::len
bv_len(bv) == bv.len

\* set_unchecked writing the bit without clearing it first
set_unchecked_or(bv, index, value) ==
  IF ~InWords(bv, to_word_index(index)) THEN [bv EXCEPT !.ub = TRUE]
  ELSE LET word == bv.words[to_word_index(index) + 1]
           set_bit == Shl(1, to_word_offset(index), WORD_BITS)
       IN [bv EXCEPT !.words[to_word_index(index) + 1] =
             BitOr(word, BitAnd(fill_word(value), set_bit))]

\* set_unchecked dropping the other bits of the word
set_unchecked_clobber(bv, index, value) ==
  IF ~InWords(bv, to_word_index(index)) THEN [bv EXCEPT !.ub = TRUE]
  ELSE LET set_bit == Shl(1, to_word_offset(index), WORD_BITS)
       IN [bv EXCEPT !.words[to_word_index(index) + 1] =
             BitAnd(fill_word(value), set_bit)]

\* BitVector::set_unchecked
set_unchecked(bv, index, value) ==
  IF ~InWords(bv, to_word_index(index)) THEN [bv EXCEPT !.ub = TRUE]
  ELSE LET word == bv.words[to_word_index(index) + 1]
           set_bit == Shl(1, to_word_offset(index), WORD_BITS)
       IN [bv EXCEPT !.words[to_word_index(index) + 1] =
             BitOr(BitAnd(word, BitNot(set_bit, WORD_BITS)),
                   BitAnd(fill_word(value), set_bit))]

\* push writing into the word of the index without adding a word
push_no_grow(bv, value) ==
  [set_unchecked(bv, bv.len, value) EXCEPT !.len = bv.len + 1]

\* BitVector::push
push(bv, value) ==
  LET word_index == to_word_index(bv.len)
      stored == IF word_index = Len(bv.words)
                THEN [bv EXCEPT !.words = Append(bv.words, AsUsize(value))]
                ELSE set_unchecked(bv, bv.len, value)
  IN [stored EXCEPT !.len = bv.len + 1]

\* BitVector::pop: the vector afterwards and what is returned
pop(bv) ==
  IF bv.len = 0 THEN [bv |-> bv, ret |-> None]
  ELSE LET shorter == [bv EXCEPT !.len = bv.len - 1]
       IN IF ~InWords(shorter, to_word_index(shorter.len))
          THEN [bv |-> [shorter EXCEPT !.ub = TRUE], ret |-> None]
          ELSE [bv |-> shorter, ret |-> Some(get_unchecked(shorter, shorter.len))]

\* set refusing only the indices above len
set_inclusive(bv, index, value) ==
  IF index > bv.len THEN [bv |-> bv, ret |-> None]
  ELSE [bv |-> set_unchecked(bv, index, value), ret |-> Some(TRUE)]

\* BitVector::set: the vector afterwards and what is returned; Some(()) is
\* written Some(TRUE)
set(bv, index, value) ==
  IF index >= bv.len THEN [bv |-> bv, ret |-> None]
  ELSE [bv |-> set_unchecked(bv, index, value), ret |-> Some(TRUE)]

\* fill writing only the whole words below len
fill_floor(bv, value) ==
  [bv EXCEPT !.words =
     [k \in DOMAIN bv.words |->
        IF k <= to_word_index(bv.len) THEN fill_word(value) ELSE bv.words[k]]]

\* BitVector::fill; the slice words[..to_words_ceil(len)] panics past the
\* backing words, which the ub mark records as well
fill(bv, value) ==
  IF to_words_ceil(bv.len) > Len(bv.words) THEN [bv EXCEPT !.ub = TRUE]
  ELSE [bv EXCEPT !.words =
          [k \in DOMAIN bv.words |->
             IF k <= to_words_ceil(bv.len) THEN fill_word(value) ELSE bv.words[k]]]

\* clear releasing the backing words as well
clear_release(bv) == [bv EXCEPT !.len = 0, !.words = <<>>]

\* BitVector::clear
clear(bv) == [bv EXCEPT !.len = 0]

\* Extend<bool>::extend: reserve, then push every value
RECURSIVE extend(_, _)
extend(bv, vals) ==
  IF vals = <<>> THEN bv ELSE extend(push(bv, Head(vals)), Tail(vals))

\* struct Bytes; current_word is the index of the word pointed to, NULL for
\* the null pointer
NULL == -1
Bytes(bit_index, bit_len, current_word) ==
  [bit_index |-> bit_index, bit_len |-> bit_len, current_word |-> current_word]

\* BitVector::bytes
bytes(bv) == Bytes(0, bv.len, IF bv.len = 0 THEN NULL ELSE 0)

\* Iterator::next of Bytes without the shifts that clear the unset bits
bytes_next_raw(bv, it) ==
  IF it.current_word = NULL THEN [it |-> it, ret |-> None, ub |-> FALSE]
  ELSE LET word_offset == to_word_offset(it.bit_index)
           word_ptr == IF it.bit_index > 0 /\ word_offset = 0
                       THEN it.current_word + 1 ELSE it.current_word
           out == ~InWords(bv, word_ptr)
           byte == IF out THEN 0 ELSE Shr(bv.words[word_ptr + 1], word_offset) % Pow2(8)
           bit_index == it.bit_index + 8
           unset_bits == bit_index - it.bit_len
       IN [it  |-> Bytes(bit_index, it.bit_len, IF unset_bits >= 0 THEN NULL ELSE word_ptr),
           ret |-> Some(byte),
           ub  |-> out]

\* Iterator::next of Bytes: the iterator afterwards and what is returned
bytes_next(bv, it) ==
  IF it.current_word = NULL THEN [it |-> it, ret |-> None, ub |-> FALSE]
  ELSE LET word_offset == to_word_offset(it.bit_index)
           word_ptr == IF it.bit_index > 0 /\ word_offset = 0
                       THEN it.current_word + 1 ELSE it.current_word
           out == ~InWords(bv, word_ptr)
           byte == IF out THEN 0 ELSE Shr(bv.words[word_ptr + 1], word_offset) % Pow2(8)
           bit_index == it.bit_index + 8
           unset_bits == bit_index - it.bit_len
       IN [it  |-> Bytes(bit_index, it.bit_len, IF unset_bits >= 0 THEN NULL ELSE word_ptr),
           ret |-> Some(IF unset_bits >= 0
                        THEN Shr(Shl(byte, unset_bits, 8), unset_bits)
                        ELSE byte),
           ub  |-> out]

\* bytes().collect(): next() until it returns None
RECURSIVE collect(_, _, _)
collect(bv, it, acc) ==
  LET r == bytes_next(bv, it)
  IN IF ~r.ret.some THEN acc
     ELSE collect(bv, r.it, [out |-> Append(acc.out, r.ret.val), ub |-> acc.ub \/ r.ub])

\* the vector the variables hold
self == [len |-> len, words |-> words, ub |-> ub]

\* the variables take the vector bv
Becomes(bv) ==
  /\ len' = bv.len
  /\ words' = bv.words
  /\ ub' = bv.ub

Op(name, index, value, ret, expect) ==
  [op |-> name, index |-> index, value |-> value, ret |-> ret, expect |-> expect]

CanStep == steps < MaxBitOps /\ ~ub

\* the bits from_iter() and extend() are given: TRUE, FALSE, TRUE, .. of
\* every length up to n
Alternating(n) == {[i \in 1..k |-> i % 2 = 1] : k \in 0..n}

\* FromIterator<bool>::from_iter
from_iter(iter) == extend(new, iter)

\* the BitVector is made by from_iter(), as the tests make it
BitsFromIter ==
  \E iter \in Alternating(MaxInitLen) :
    /\ len = from_iter(iter).len
    /\ words = from_iter(iter).words
    /\ ub = from_iter(iter).ub
    /\ abs = iter
    /\ bop = Op("from_iter", Len(iter), FALSE, None, None)
    /\ steps = 0

BitsPush ==
  /\ CanStep
  /\ \E value \in BOOLEAN :
       /\ Becomes(push(self, value))
       /\ abs' = Append(abs, value)
       /\ bop' = Op("push", len, value, None,
                    IF InWords(self, to_word_index(len))
                    THEN Some(get_unchecked(self, len)) ELSE None)
  /\ steps' = steps + 1
  /\ UNCHANGED <<huffVars, heapVars>>

BitsPop ==
  /\ CanStep
  /\ Becomes(pop(self).bv)
  /\ abs' = IF abs = <<>> THEN abs ELSE SubSeq(abs, 1, Len(abs) - 1)
  /\ bop' = Op("pop", 0, FALSE, pop(self).ret,
               IF abs = <<>> THEN None ELSE Some(abs[Len(abs)]))
  /\ steps' = steps + 1
  /\ UNCHANGED <<huffVars, heapVars>>

BitsSet ==
  /\ CanStep
  /\ \E index \in 0..(len + MaxPast) : \E value \in BOOLEAN :
       /\ Becomes(set(self, index, value).bv)
       /\ abs' = IF index < Len(abs) THEN [abs EXCEPT ![index + 1] = value] ELSE abs
       /\ bop' = Op("set", index, value, set(self, index, value).ret,
                    IF index < Len(abs) THEN Some(TRUE) ELSE None)
  /\ steps' = steps + 1
  /\ UNCHANGED <<huffVars, heapVars>>

BitsFill ==
  /\ CanStep
  /\ \E value \in BOOLEAN :
       /\ Becomes(fill(self, value))
       /\ abs' = [i \in DOMAIN abs |-> value]
       /\ bop' = Op("fill", 0, value, None, None)
  /\ steps' = steps + 1
  /\ UNCHANGED <<huffVars, heapVars>>

BitsClear ==
  /\ CanStep
  /\ Becomes(clear(self))
  /\ abs' = <<>>
  /\ bop' = Op("clear", 0, FALSE, None, None)
  /\ steps' = steps + 1
  /\ UNCHANGED <<huffVars, heapVars>>

BitsExtend ==
  /\ CanStep
  /\ \E vals \in Alternating(MaxExtendLen) :
       /\ Becomes(extend(self, vals))
       /\ abs' = abs \o vals
       /\ bop' = Op("extend", Len(vals), FALSE, None, None)
  /\ steps' = steps + 1
  /\ UNCHANGED <<huffVars, heapVars>>

\* bytes().collect::<Vec<_>>()
BitsBytes ==
  /\ CanStep
  /\ LET r == collect(self, bytes(self), [out |-> <<>>, ub |-> FALSE])
     IN /\ bop' = Op("bytes", 0, FALSE, Some(r.out), None)
        /\ ub' = r.ub
  /\ steps' = steps + 1
  /\ UNCHANGED <<len, words, abs>>
  /\ UNCHANGED <<huffVars, heapVars>>

BitsNext ==
  \/ BitsPush
  \/ BitsPop
  \/ BitsSet
  \/ BitsFill
  \/ BitsClear
  \/ BitsExtend
  \/ BitsBytes

BitsStart == HuffInit /\ HeapInit /\ BitsFromIter

SpecBits == BitsStart /\ [][BitsNext]_vars

-----------------------------------------------------------------------------
(* Properties of BitVector                                                 *)

\* the vector the variables hold after a step
selfNext == [len |-> len', words |-> words', ub |-> ub']

\* what bytes() yields on the vector the variables hold
BytesOf == collect(self, bytes(self), [out |-> <<>>, ub |-> FALSE])

\* bit j of a byte, 0 the least significant
ByteBit(byte, j) == (byte \div (2 ^ j)) % 2

\* the bytes pack the bits of the vector, eight to a byte, least significant
\* bit first, with zeros past len
Packed(out) ==
  /\ Len(out) = (len + 7) \div 8
  /\ \A k \in 0..(Len(out) - 1) : \A j \in 0..7 :
       IF 8 * k + j < len
       THEN ByteBit(out[k + 1], j) = AsUsize(get(self, 8 * k + j) = Some(TRUE))
       ELSE ByteBit(out[k + 1], j) = 0

\* C6: bytes() yields ceil(len/8) bytes, bit j of byte k is get(8k+j) below
\* len, and every bit at or beyond len is 0, whatever the backing words
\* hold beyond len; no word outside the backing words is read.
C6_BytePacking ==
  /\ ~BytesOf.ub
  /\ Packed(BytesOf.out)
  /\ bop.op = "bytes" => (~ub /\ Packed(bop.ret.val))

\* C6's case: bytes() ran on a vector whose length is not a multiple of 8 and
\* whose last used word holds a 1 bit at the length, left there by an earlier
\* operation.
C6_Witness ==
  /\ bop.op = "bytes"
  /\ len % 8 # 0
  /\ ByteBit(words[to_word_index(len) + 1], to_word_offset(len)) = 1
  /\ Len(bop.ret.val) = (len + 7) \div 8

\* C7: len() is the abstract sequence's length, get(i) is its element i, the
\* bit pushed is read back at its index, and pop returns the abstract last
\* element, or None on the empty vector.
C7_RefinesSequence ==
  /\ bv_len(self) = Len(abs)
  /\ \A i \in 0..(Len(abs) - 1) : get(self, i) = Some(abs[i + 1])
  /\ bop.op = "push" => get(self, bop.index) = Some(bop.value)
  /\ bop.op = "pop" => bop.ret = bop.expect

\* C7's case: FALSE was pushed onto a 1 bit left in the backing word by an
\* earlier pop or clear, past the first word.
C7_Witness ==
  /\ bop.op = "push"
  /\ ~bop.value
  /\ bop.index = WORD_BITS
  /\ bop.expect = Some(TRUE)
  /\ get(self, WORD_BITS) = Some(FALSE)

\* C8: get(index) is None for every index >= len, set(index, b) with
\* index >= len returns None and leaves the length and every bit below it
\* as they were.
C8_OutOfRange ==
  /\ [](\A index \in len..(len + MaxPast) : get(self, index) = None)
  /\ [][(bop'.op = "set" /\ bop'.index >= len)
          => /\ bop'.ret = None
             /\ len' = len
             /\ \A i \in 0..(len - 1) : get(selfNext, i) = get(self, i)]_vars

\* C8's case: set(len, TRUE) was refused on a vector of more than one word.
C8_Witness ==
  /\ bop.op = "set"
  /\ bop.index = len
  /\ bop.value
  /\ bop.ret = None
  /\ len > WORD_BITS

\* C9: set(i, b) with i < len returns Some(()), get(i) is Some(b) afterwards,
\* get(j) is as before for every other j < len, and the length is unchanged.
C9_SetFrame ==
  [][(bop'.op = "set" /\ bop'.index < len)
       => /\ bop'.ret = Some(TRUE)
          /\ len' = len
          /\ get(selfNext, bop'.index) = Some(bop'.value)
          /\ \A j \in 0..(len - 1) :
               j # bop'.index => get(selfNext, j) = get(self, j)]_vars

\* C9's case: set(i, FALSE) turned a TRUE bit of the second word off while
\* TRUE bits remain in the first.
C9_Witness ==
  /\ bop.op = "set"
  /\ bop.index = WORD_BITS
  /\ ~bop.value
  /\ bop.ret = Some(TRUE)
  /\ len = WORD_BITS + 1
  /\ get(self, 0) = Some(TRUE)
  /\ get(self, WORD_BITS) = Some(FALSE)
  /\ steps = 1

\* C10: fill(b) leaves the length unchanged and afterwards get(i) is Some(b)
\* for every i < len.
C10_Fill ==
  [][bop'.op = "fill"
       => /\ len' = len
          /\ \A i \in 0..(len - 1) : get(selfNext, i) = Some(bop'.value)]_vars

\* C10's case: fill(TRUE) ran on a vector of TRUE, FALSE, .. whose length is
\* more than a word and not a multiple of the word width.
C10_Witness ==
  /\ bop.op = "fill"
  /\ bop.value
  /\ steps = 1
  /\ len > WORD_BITS
  /\ len % WORD_BITS # 0
  /\ \A i \in 0..(len - 1) : get(self, i) = Some(TRUE)

\* C21: clear sets the length to zero; clear, pop, set and fill never reduce
\* the number of backing words; push adds one backing word exactly when the
\* word index of the length is the number of backing words, and otherwise
\* leaves that number as it is.
C21_BackingWords ==
  [][/\ bop'.op = "clear" => (len' = 0 /\ Len(words') >= Len(words))
     /\ bop'.op \in {"pop", "set", "fill"} => Len(words') >= Len(words)
     /\ bop'.op = "push" =>
          Len(words') = Len(words) +
            (IF to_word_index(len) = Len(words) THEN 1 ELSE 0)]_vars

\* C21's case: after a clear of a vector of two words a push wrote the bit
\* of index 0 and both words are still there.
C21_Witness ==
  /\ bop.op = "push"
  /\ bop.index = 0
  /\ len = 1
  /\ Len(words) = 2

\* C25: the length is at most the number of backing words times the word
\* width, every index below the length is in an existing backing word, and
\* no unchecked read or write has gone past the backing words.
C25_LenWithinWords ==
  /\ len <= Len(words) * WORD_BITS
  /\ \A index \in 0..(len - 1) : InWords(self, to_word_index(index))
  /\ ~ub

\* C25's case: a push or an extend has filled the last backing word to its
\* last bit.
C25_Witness ==
  /\ bop.op \in {"push", "extend"}
  /\ len > 0
  /\ len = Len(words) * WORD_BITS

-----------------------------------------------------------------------------
(* Properties of MaxHeap                                                   *)

\* the positions of history at which next() returned Some(..)
Pops == {i \in DOMAIN history : history[i].op = "next" /\ history[i].v # 0}

\* C4: after any interleaving of push and next, next returns a maximum of the
\* values pushed and not yet popped and removes one occurrence of it, len()
\* is the number of those values, and next on an empty heap returns None and
\* leaves the heap empty.
C4_PopReturnsMaximum ==
  /\ BagOf(heap) = contents
  /\ heap_len(heap) = BagSize(contents)
  /\ hop.op = "next" => hop.ret = hop.expect
  /\ (hop.op = "next" /\ hop.ret = None) => heap_is_empty(heap)

\* C4's case: a next() returned a value pushed after an earlier next() and
\* greater than what that one returned, and in the end a next() on the
\* emptied heap returned None.
C4_Witness ==
  /\ hop.op = "next" /\ hop.ret = None
  /\ \E i, j \in Pops : \E k \in DOMAIN history :
       /\ i < k /\ k < j
       /\ history[k].op = "push"
       /\ history[j].v = history[k].v
       /\ history[j].v > history[i].v

\* C5 as stated: the values returned by the pops are non-increasing across the
\* whole pop sequence, also when pushes happen between the pops.
C5_PopsNonIncreasing ==
  \A i, j \in Pops : i < j => history[j].v <= history[i].v

\* C5 as amended: a popped value is less than or equal to every value popped
\* before it, unless that value was pushed after the earlier pop.
C5_PopsNonIncreasingUnlessPushed ==
  \A i, j \in Pops :
    i < j => \/ history[j].v <= history[i].v
             \/ \E k \in DOMAIN history :
                  i < k /\ k < j /\ history[k].op = "push" /\ history[k].v = history[j].v

\* C5's case: two pops in a row returned a greater and then a smaller value,
\* and the pop after a further push returned a value greater than both.
C5_Witness ==
  \E i \in Pops :
    /\ {i + 1, i + 3} \subseteq Pops
    /\ history[i].v > history[i + 1].v
    /\ history[i + 2].op = "push"
    /\ history[i + 3].v > history[i].v

\* std::cmp::Reverse(x) of tests::sort, as the number of 1..MaxValue that
\* stands where x stands in the reversed order; elem.0 takes it back
Reverse(x) == (MaxValue + 1) - x

\* the number of push calls history starts with
Pushed == Cardinality({i \in DOMAIN history : history[i].op = "push"})

\* history is some pushes onto the empty heap and then only next calls
FilledThenDrained ==
  \A i \in DOMAIN history : history[i].op = (IF i <= Pushed THEN "push" ELSE "next")

\* C17: after the values of a list were pushed onto an empty MaxHeap, the
\* next calls return them all, equal ones as often as they were pushed, in
\* non-increasing order (the values inside Reverse in non-decreasing order),
\* and every next after that returns None.
C17_FullConsumption ==
  FilledThenDrained =>
    /\ \A i \in DOMAIN history :
         i > Pushed => (history[i].v # 0 <=> i <= 2 * Pushed)
    /\ \A i, j \in (Pushed + 1)..(2 * Pushed) :
         (i < j /\ j <= Len(history)) =>
           /\ history[j].v <= history[i].v
           /\ Reverse(history[i].v) <= Reverse(history[j].v)
    /\ Len(history) >= 2 * Pushed =>
         BagOf([i \in 1..Pushed |-> history[i].v])
           = BagOf([i \in 1..Pushed |-> history[Pushed + i].v])
    /\ (Len(history) > 2 * Pushed /\ hop.op = "next") =>
         hop.ret = None /\ heap_is_empty(heap)

\* C17's case: three values, two of them equal and the greatest pushed
\* last, came back in order and one more next call returned None.
C17_Witness ==
  /\ FilledThenDrained
  /\ Pushed = 3
  /\ Len(history) = 7
  /\ history[1].v = history[2].v
  /\ history[3].v > history[1].v
  /\ history[4].v = history[3].v
  /\ history[6].v = history[1].v
  /\ history[7].v = 0

\* C22: peek returns None on the empty heap and otherwise an element equal
\* to the greatest value pushed and not popped, which is what a next call
\* right after it returns; peek leaves the heap's Vec, and so its contents
\* and length, as they were.
C22_Peek ==
  [][/\ hop'.op = "peek" =>
          /\ heap' = heap
          /\ heap_len(heap') = heap_len(heap)
          /\ (hop'.ret = None) <=> heap_is_empty(heap)
          /\ hop'.ret = hop'.expect
     /\ (hop.op = "peek" /\ hop'.op = "next") => hop'.ret = hop.ret]_vars

\* C22's case: after a next call, peek returned the greatest value of a heap
\* of three values whose last element is smaller.
C22_Witness ==
  /\ hop.op = "peek"
  /\ \E i \in DOMAIN history : history[i].op = "next"
  /\ heap_len(heap) = 3
  /\ hop.ret = Some(At(heap, ROOT_INDEX))
  /\ At(heap, 2) < At(heap, ROOT_INDEX)

\* C24: at the end of every push and next, the element at every index i > 0
\* of the heap's Vec is less than or equal to the element at index
\* (i - 1) div 2.
C24_HeapOrder ==
  \A i \in 1..(Len(heap) - 1) : At(heap, i) <= At(heap, (i - 1) \div 2)

\* C24's case: a next call has left a heap of four values whose Vec is not
\* sorted: the left child of the root, and the child of that one, are
\* smaller than the right child of the root.
C24_Witness ==
  /\ hop.op = "next"
  /\ Len(heap) = 4
  /\ At(heap, 1) < At(heap, 2)
  /\ At(heap, 3) < At(heap, 2)

\* C30: two heaps compare equal exactly when they hold the same multiset of
\* values, whatever the order of the pushes and the next calls between them
\* that built each, and the comparison leaves both heaps as they were.
C30_EqualityByContents ==
  /\ [](hop.op = "eq" => (hop.ret = Some(BagOf(heap) = BagOf(other))))
  /\ [][hop'.op = "eq" => (heap' = heap /\ other' = other)]_vars

\* C30's case: two heaps of the same three values, pushed in orders that
\* left different Vecs, compared equal.
C30_Witness ==
  /\ hop.op = "eq"
  /\ hop.ret = Some(TRUE)
  /\ Len(heap) = 3
  /\ heap # other

-----------------------------------------------------------------------------
(* Properties of HuffmanEncoding                                           *)

Built == hpc \in {"built", "encoded", "decoded", "decode_done", "decoded_past"}

IsPrefix(a, b) == Len(a) <= Len(b) /\ SubSeq(b, 1, Len(a)) = a

PrefixFree(code) ==
  \A a, b \in DOMAIN code : a # b => ~IsPrefix(code[a], code[b])

\* sum over the symbols of weight times codeword length
WeightedLength(table, lengths) ==
  SumOver([c \in DOMAIN table |-> table[c] * lengths[c]], DOMAIN table)

BitSeqs == SeqsUpTo(BOOLEAN, MaxCodeLen)

\* the codeword lengths of every prefix-free binary code, over every set K of
\* symbols, with codewords of at most MaxCodeLen bits
PrefixFreeLengths ==
  UNION {{[c \in K |-> Len(code[c])] :
            code \in {code \in [K -> BitSeqs] : PrefixFree(code)}} :
         K \in SUBSET Symbols}

\* C1: for a non-empty frequency table and a sequence of symbols of its keys,
\* decode(encode(seq), length(seq)) returns exactly seq.
C1_RoundTrip ==
  (hpc = "decoded" /\ DOMAIN frequencies # {}
     /\ \A i \in DOMAIN values : values[i] \in DOMAIN frequencies)
    => decoded = Returned(values)

\* C1's case: two different symbols, one of weight zero, of a table of at
\* least three symbols were encoded into at least three bits and decoded.
C1_Witness ==
  /\ hpc = "decoded"
  /\ Cardinality(DOMAIN frequencies) >= 3
  /\ Len(values) = 2 /\ values[1] # values[2]
  /\ frequencies[values[1]] = 0
  /\ Len(encoded.out) >= 3
  /\ decoded = Returned(values)

\* C2: in a codec built from at least two symbols, no symbol's codeword is a
\* prefix of another symbol's codeword.
C2_PrefixFree ==
  (Built /\ Cardinality(DOMAIN frequencies) >= 2)
    => \A a, b \in DOMAIN frequencies :
         a # b => /\ a \in DOMAIN encodings
                  /\ b \in DOMAIN encodings
                  /\ ~IsPrefix(encodings[a], encodings[b])

\* C2's case: a built codec of four symbols with codewords of different lengths.
C2_Witness ==
  /\ Built
  /\ DOMAIN encodings = Symbols
  /\ \E a, b \in Symbols : Len(encodings[a]) = 1 /\ Len(encodings[b]) = 3

\* C3: the weighted code length of the built codeword table is at most that
\* of every prefix-free binary code over the same symbols.
C3_MinimumRedundancy ==
  hpc = "built" =>
    \A lengths \in PrefixFreeLengths :
      DOMAIN lengths = DOMAIN frequencies =>
      WeightedLength(frequencies, [c \in DOMAIN frequencies |-> Len(encodings[c])])
        <= WeightedLength(frequencies, lengths)

\* C3's case: a built codec of four symbols of different weights whose
\* weighted length some prefix-free code over the same symbols exceeds.
C3_Witness ==
  /\ hpc = "built"
  /\ DOMAIN frequencies = Symbols
  /\ \E a, b \in Symbols : frequencies[a] < frequencies[b]
  /\ \E lengths \in PrefixFreeLengths :
       /\ DOMAIN lengths = Symbols
       /\ WeightedLength(frequencies, [c \in Symbols |-> Len(encodings[c])])
         < WeightedLength(frequencies, lengths)

RECURSIVE FullBinary(_)
\* every node of the tree is a Leaf of one symbol or an Inner of two trees
FullBinary(tree) ==
  IF tree[1] = "Leaf" THEN Len(tree) = 2
  ELSE /\ tree[1] = "Inner"
       /\ Len(tree) = 3
       /\ FullBinary(tree[2])
       /\ FullBinary(tree[3])

RECURSIVE LeafCount(_)
LeafCount(tree) ==
  IF IsLeaf(tree) THEN 1 ELSE LeafCount(tree[2]) + LeafCount(tree[3])

RECURSIVE LeavesOf(_)
LeavesOf(tree) ==
  IF IsLeaf(tree) THEN {tree[2]} ELSE LeavesOf(tree[2]) \cup LeavesOf(tree[3])

\* C11: in the tree built from a non-empty frequency table every internal
\* node has exactly two children, there is one leaf per symbol of the table,
\* and the keys of the codeword table are the keys of the frequency table.
C11_FullBinaryTree ==
  (Built /\ DOMAIN frequencies # {})
    => /\ decode_tree # NoTree
       /\ FullBinary(decode_tree)
       /\ LeafCount(decode_tree) = Cardinality(DOMAIN frequencies)
       /\ LeavesOf(decode_tree) = DOMAIN frequencies
       /\ DOMAIN encodings = DOMAIN frequencies

\* C11's case: a tree built from four symbols, one of them of weight zero.
C11_Witness ==
  /\ hpc = "built"
  /\ DOMAIN frequencies = Symbols
  /\ \E c \in Symbols : frequencies[c] = 0
  /\ LeafCount(decode_tree) = 4
  /\ ~IsLeaf(decode_tree[2]) /\ ~IsLeaf(decode_tree[3])

\* C13: a codec built from a table of one symbol s has the one-node tree
\* Leaf(s) and the empty codeword for s; encoding N copies of s returns an
\* empty container, and decoding it with count N returns the N copies.
C13_SingleSymbol ==
  \A s \in DOMAIN frequencies :
    (Built /\ DOMAIN frequencies = {s}) =>
      /\ decode_tree = Leaf(s)
      /\ encodings = [c \in {s} |-> <<>>]
      /\ (hpc \in {"encoded", "decoded"} /\ \A i \in DOMAIN values : values[i] = s)
           => encoded = Returned(<<>>)
      /\ (hpc = "decoded" /\ \A i \in DOMAIN values : values[i] = s)
           => /\ Len(decoded.out) = Len(values)
              /\ decoded = Returned(values)

\* C13's case: two copies of the only symbol were encoded into no bits and
\* decoded from them.
C13_Witness ==
  /\ hpc = "decoded"
  /\ Cardinality(DOMAIN frequencies) = 1
  /\ Len(values) = MaxSeqLen
  /\ \A i \in DOMAIN values : values[i] \in DOMAIN frequencies
  /\ encoded = Returned(<<>>)
  /\ decoded = Returned(values)

\* C14: encode and encode_ref of a sequence holding a symbol that is not a
\* key of the frequency table panic and return no container; so does encode
\* of any non-empty sequence on the codec of an empty table.
C14_UnknownSymbol ==
  /\ (hpc = "encoded" /\ \E i \in DOMAIN values : values[i] \notin DOMAIN frequencies)
       => encoded.panic # "" /\ encoded.out = <<>>
  /\ (hpc = "encoded" /\ DOMAIN frequencies = {} /\ values # <<>>)
       => encoded.panic # ""
  /\ hpc = "built" =>
       \A vals \in EncodeInputs :
         (\E i \in DOMAIN vals : vals[i] \notin DOMAIN frequencies)
           => /\ encode(encodings, vals) = Panicked("no entry found for key")
              /\ encode_ref(encodings, vals) = Panicked("no entry found for key")
  /\ hpc = "decoded" => encoded.panic = ""

\* C14's case: encode panicked on a sequence whose first symbol has a
\* codeword and whose second symbol has none.
C14_Witness ==
  /\ hpc = "encoded"
  /\ Len(values) = 2
  /\ values[1] \in DOMAIN frequencies
  /\ values[2] \notin DOMAIN frequencies
  /\ encoded = Panicked("no entry found for key")

RECURSIVE TreeWeight(_)
\* the sum of the weights of the leaves of the tree
TreeWeight(tree) ==
  IF IsLeaf(tree) THEN frequencies[tree[2]]
  ELSE TreeWeight(tree[2]) + TreeWeight(tree[3])

RECURSIVE LeftLighter(_)
\* at every Inner node the left subtree weighs at most the right subtree
LeftLighter(tree) ==
  \/ IsLeaf(tree)
  \/ /\ TreeWeight(tree[2]) <= TreeWeight(tree[3])
     /\ LeftLighter(tree[2])
     /\ LeftLighter(tree[3])

RECURSIVE MergeAll(_)
\* one run of the merge loop from the pending entries h: its root, and
\* whether two pending entries ever had equal weights
MergeAll(h) ==
  LET left == CHOOSE e \in PopChoices(h) : TRUE
      right == CHOOSE e \in PopChoices(h \ {left}) : TRUE
      ties == \E a, b \in h : a # b /\ a.frequency = b.frequency
  IN IF h \ {left} = {} THEN [tree |-> left.tree, ties |-> FALSE]
     ELSE LET rest == MergeAll((h \ {left, right}) \cup
                        {UnrootedEncodingTree(Inner(left.tree, right.tree),
                                              left.frequency + right.frequency)})
          IN [tree |-> rest.tree, ties |-> ties \/ rest.ties]

\* the codewords of the symbols of tests::test_example
ExampleCodes ==
  [c \in {"_", "D", "A", "E", "C", "B"} |->
     CASE c = "_" -> <<FALSE, FALSE>>
       [] c = "D" -> <<FALSE, TRUE>>
       [] c = "A" -> <<TRUE, FALSE>>
       [] c = "E" -> <<TRUE, TRUE, FALSE>>
       [] c = "C" -> <<TRUE, TRUE, TRUE, FALSE>>
       [] c = "B" -> <<TRUE, TRUE, TRUE, TRUE>>]

\* C18: the entry popped first becomes the left child (bit 0) and the one
\* popped second the right child (bit 1), so the left subtree of every node
\* weighs at most the right one; when no two pending entries ever have equal
\* weights the tree and the codeword table are the only possible ones; and
\* for the corpus of test_example the codewords are _=00, D=01, A=10, E=110,
\* C=1110, B=1111 and encode(corpus) is the bit string of the test.
C18_FirstPoppedIsLeft ==
  /\ hpc = "merge" => \A e \in by_frequency : LeftLighter(e.tree)
  /\ (hpc = "built" /\ decode_tree # NoTree) =>
       /\ LeftLighter(decode_tree)
       /\ LET all == MergeAll({UnrootedEncodingTree(Leaf(c), frequencies[c]) :
                                 c \in DOMAIN frequencies})
          IN ~all.ties =>
               /\ decode_tree = all.tree
               /\ encodings = add_tree([map |-> EmptyMap, ok |-> TRUE], <<>>, all.tree).map
  /\ (Built /\ frequencies = Counts(ExampleText)) => encodings = ExampleCodes
  /\ (hpc = "encoded" /\ frequencies = Counts(ExampleText) /\ values = ExampleText)
       => encoded = Returned(ExampleBits)

\* C18's case: the corpus of test_example was encoded by the codec built
\* from it, with no two equal weights during the build.
C18_Witness ==
  /\ hpc = "encoded"
  /\ values = ExampleText
  /\ encoded = Returned(ExampleBits)
  /\ encodings["B"] = <<TRUE, TRUE, TRUE, TRUE>>
  /\ ~MergeAll({UnrootedEncodingTree(Leaf(c), frequencies[c]) :
                  c \in DOMAIN frequencies}).ties

\* C20: every merge step removes two pending entries that no remaining
\* pending entry weighs less than, and adds one Inner entry of the two whose
\* weight is the sum of their weights.
C20_GreedyMerge ==
  [][merges' = merges + 1 =>
       \E l, r \in by_frequency :
         /\ l # r
         /\ \A o \in by_frequency \ {l, r} :
              o.frequency >= l.frequency /\ o.frequency >= r.frequency
         /\ by_frequency' =
              (by_frequency \ {l, r}) \cup
                {[tree |-> <<"Inner", l.tree, r.tree>>,
                  frequency |-> l.frequency + r.frequency]}]_vars

\* C20's case: a second merge has joined the first merge's node, of weight
\* three, with a leaf, while a heavier entry stays pending.
C20_Witness ==
  /\ hpc = "merge"
  /\ merges = 2
  /\ \E e, o \in by_frequency :
       /\ ~IsLeaf(e.tree)
       /\ (~IsLeaf(e.tree[2]) \/ ~IsLeaf(e.tree[3]))
       /\ o.frequency > e.frequency

\* C12: the codec of an empty table has an empty codeword table and no tree;
\* encode of the empty sequence returns a container of no bits; decode(bits, 0)
\* returns the empty sequence on every codec, for every bits, without a panic.
C12_EmptyCorpus ==
  /\ (Built /\ DOMAIN frequencies = {}) =>
       /\ encodings = EmptyMap
       /\ decode_tree = NoTree
  /\ (hpc = "encoded" /\ values = <<>>) => encoded = Returned(<<>>)
  /\ (hpc = "decode_done" /\ in_count = 0) => decoded = Returned(<<>>)
  /\ (hpc = "decoded" /\ values = <<>>) => decoded = Returned(<<>>)

\* C12's case: the codec of an empty table was asked to decode no symbols of
\* the longest bits.
C12_Witness ==
  /\ hpc = "decode_done"
  /\ DOMAIN frequencies = {}
  /\ decode_tree = NoTree
  /\ Len(in_bits) = MaxBits
  /\ in_count = 0
  /\ decoded = Returned(<<>>)

RECURSIVE PathTo(_, _)
\* the bits of the walk from the root of the tree to the leaf of symbol c
PathTo(tree, c) ==
  IF IsLeaf(tree) THEN <<>>
  ELSE IF c \in LeavesOf(tree[2]) THEN <<FALSE>> \o PathTo(tree[2], c)
  ELSE <<TRUE>> \o PathTo(tree[3], c)

RECURSIVE PathsOf(_, _)
\* the walks to the symbols of syms, one after the other
PathsOf(tree, syms) ==
  IF syms = <<>> THEN <<>>
  ELSE PathTo(tree, Head(syms)) \o PathsOf(tree, Tail(syms))

RECURSIVE EndsInside(_, _)
\* the walk from the tree along the bits uses all of them and stops at an
\* Inner node
EndsInside(tree, path) ==
  /\ ~IsLeaf(tree)
  /\ \/ path = <<>>
     \/ /\ path # <<>>
        /\ EndsInside(IF Head(path) THEN tree[3] ELSE tree[2], Tail(path))

\* the bits run out at an Inner node after fewer than count complete walks
Truncated(tree, path, count) ==
  \E k \in 0..(count - 1) :
    \E syms \in [1..k -> LeavesOf(tree)] :
      /\ IsPrefix(PathsOf(tree, syms), path)
      /\ EndsInside(tree, SubSeq(path, Len(PathsOf(tree, syms)) + 1, Len(path)))

\* C15: decode of a positive count on a codec with a tree either returns
\* exactly count symbols, each the leaf of a complete walk from the root
\* along the next bits, or panics; it panics exactly when the bits run out
\* at an Inner node, and then returns nothing.
C15_TruncatedInput ==
  (hpc = "decode_done" /\ decode_tree # NoTree /\ in_count > 0) =>
    IF Truncated(decode_tree, in_bits, in_count)
    THEN decoded = Panicked("Encoding is not long enough")
    ELSE /\ decoded.panic = ""
         /\ Len(decoded.out) = in_count
         /\ \A i \in 1..in_count : decoded.out[i] \in DOMAIN frequencies
         /\ IsPrefix(PathsOf(decode_tree, decoded.out), in_bits)

\* C15's case: decode walked to the leaf of one symbol of a codeword of two
\* bits or more, and the bits ran out inside the walk to the second.
C15_Witness ==
  /\ hpc = "decode_done"
  /\ in_count = 2
  /\ decoded = Panicked("Encoding is not long enough")
  /\ \E c \in DOMAIN frequencies :
       /\ Len(PathTo(decode_tree, c)) >= 2
       /\ IsPrefix(PathTo(decode_tree, c), in_bits)
       /\ Len(in_bits) > Len(PathTo(decode_tree, c))

\* C16: decode of a positive count on the codec of an empty table panics
\* with "No huffman tree generated", for every bits.
C16_EmptyTree ==
  (hpc = "decode_done" /\ DOMAIN frequencies = {} /\ in_count > 0)
    => decoded = Panicked("No huffman tree generated")

\* C16's case: the codec of an empty table was asked for two symbols of the
\* longest bits.
C16_Witness ==
  /\ hpc = "decode_done"
  /\ DOMAIN frequencies = {}
  /\ Len(in_bits) = MaxBits
  /\ in_count = MaxCount
  /\ decoded = Panicked("No huffman tree generated")

\* the codec is built and is not touched
CodecKept == Built => (encodings' = encodings /\ decode_tree' = decode_tree)

\* every call that has returned returned what the call returns alone
ReturnedAsAlone ==
  \A t \in Callers :
    calls[t].pc = "done" =>
      calls[t].ret = (IF calls[t].op = "encode"
                      THEN encode(encodings, calls[t].vals)
                      ELSE decode(decode_tree, calls[t].bits, calls[t].count))

\* C19: encode and decode never change the tree or the codeword table of
\* the codec, and in every interleaving of the steps of encode and decode
\* calls of callers sharing one built codec, each call returns what it
\* returns when it runs alone.
C19_SharedReadOnly == [][CodecKept]_vars /\ []ReturnedAsAlone

\* C19's case: a caller's encode has returned the bits of a symbol while
\* the other caller's decode is inside a walk of the tree.
C19_Witness ==
  \E t, u \in Callers :
    /\ calls[t].op = "encode" /\ calls[t].pc = "done"
    /\ calls[t].ret.panic = "" /\ calls[t].ret.out # <<>>
    /\ calls[u].op = "decode" /\ calls[u].pc = "run"
    /\ calls[u].path # <<>>

RECURSIVE encode_words(_, _, _)
\* the BitVector encode() builds: BitVector::new(), then
\* bits.extend(&self.encodings[&c]) for each of the values, in the backing
\* words of the BitVector
encode_words(map, vals, bv) ==
  IF vals = <<>> THEN bv
  ELSE encode_words(map, Tail(vals), extend(bv, map[Head(vals)]))

\* the booleans a BitVector holds, by get()
BitsOf(bv) == [i \in 1..bv.len |-> get(bv, i - 1).val]

\* the number of bits of the codewords of the first n values
CodeLenUpTo(n) ==
  SumOver([i \in 1..n |-> Len(encodings[values[i]])], 1..n)

\* C23: for a sequence s1..sk of symbols of the table, encode returns a
\* container whose length is the sum of the codeword lengths and whose bits
\* are the codeword of s1, then that of s2, and so on to sk; the BitVector
\* built by extend holds these bits; encode_ref returns the same container.
C23_EncodeConcatenates ==
  (hpc = "encoded" /\ \A i \in DOMAIN values : values[i] \in DOMAIN frequencies) =>
    /\ encoded.panic = ""
    /\ Len(encoded.out) = CodeLenUpTo(Len(values))
    /\ \A i \in DOMAIN values :
         SubSeq(encoded.out, CodeLenUpTo(i - 1) + 1, CodeLenUpTo(i))
           = encodings[values[i]]
    /\ BitsOf(encode_words(encodings, values, new)) = encoded.out
    /\ ~encode_words(encodings, values, new).ub
    /\ encode_ref(encodings, values) = encoded
    /\ encode(encodings, values) = encoded

\* C23's case: two different symbols, the first of a codeword of three
\* bits and the second of a shorter one, were encoded.
C23_Witness ==
  /\ hpc = "encoded"
  /\ encoded.panic = ""
  /\ Len(values) = 2
  /\ Len(encodings[values[1]]) = 3
  /\ Len(encodings[values[2]]) < 3
  /\ Len(encoded.out) > 3

\* the number of symbols of the frequency table
NumSymbols == Cardinality(DOMAIN frequencies)

\* C26: for a table of n >= 1 symbols the merge loop ends, after exactly
\* n - 1 merges; every merge leaves one pending entry fewer, and the loop
\* ends when one entry remains, whose tree becomes the root.
C26_BuildTerminates ==
  /\ [](hpc = "merge" => /\ Cardinality(by_frequency) = NumSymbols - merges
                         /\ Cardinality(by_frequency) >= 1)
  /\ []((hpc = "built" /\ NumSymbols >= 1) => merges = NumSymbols - 1)
  /\ [][/\ (hpc = "merge" /\ hpc' = "merge") =>
            /\ merges' = merges + 1
            /\ Cardinality(by_frequency') = Cardinality(by_frequency) - 1
        /\ (hpc = "merge" /\ hpc' # "merge") =>
            /\ hpc' = "built"
            /\ merges' = merges
            /\ Cardinality(by_frequency) = 1
            /\ \A e \in by_frequency : decode_tree' = e.tree]_vars
  /\ (hpc = "merge") ~> (hpc = "built")

\* C26's case: the build of the six symbols of test_example has ended after
\* five merges.
C26_Witness ==
  /\ hpc = "built"
  /\ NumSymbols = 6
  /\ merges = 5
  /\ ~IsLeaf(decode_tree)

RECURSIVE LeafOccurrences(_, _)
\* the number of leaves of the tree that hold the symbol c
LeafOccurrences(tree, c) ==
  IF IsLeaf(tree) THEN (IF tree[2] = c THEN 1 ELSE 0)
  ELSE LeafOccurrences(tree[2], c) + LeafOccurrences(tree[3], c)

RECURSIVE WalkEnd(_, _)
\* the node the walk from the tree along the bits ends at, false to the
\* left and true to the right; <<"Past">> where it would leave a leaf
WalkEnd(tree, path) ==
  IF path = <<>> THEN tree
  ELSE IF IsLeaf(tree) THEN <<"Past">>
  ELSE WalkEnd(IF Head(path) THEN tree[3] ELSE tree[2], Tail(path))

\* C27: the assertion of add_tree never fails; in every built codec each
\* symbol of the table is in exactly one leaf, and the walk from the root
\* along the bits of a symbol's codeword ends at the leaf of that symbol.
C27_TreeAndTableAgree ==
  /\ hpc # "assert_failed"
  /\ (Built /\ NumSymbols >= 1) =>
       \A c \in DOMAIN frequencies :
         /\ LeafOccurrences(decode_tree, c) = 1
         /\ c \in DOMAIN encodings
         /\ WalkEnd(decode_tree, encodings[c]) = Leaf(c)

\* C27's case: a built codec of four symbols with a codeword of three bits
\* that turns right and then left.
C27_Witness ==
  /\ hpc = "built"
  /\ NumSymbols = 4
  /\ \E c \in DOMAIN frequencies :
       /\ Len(encodings[c]) = 3
       /\ encodings[c][1] /\ encodings[c][2] /\ ~encodings[c][3]

\* C29: in every built codec a symbol of strictly greater weight has a
\* codeword no longer than that of a symbol of smaller weight, whichever
\* entry the queue returns among equal weights.
C29_LengthsMonotone ==
  Built =>
    \A a, b \in DOMAIN frequencies :
      frequencies[a] > frequencies[b] => Len(encodings[a]) <= Len(encodings[b])

\* C29's case: a built codec of four symbols, two of them of equal weight
\* and codewords of different lengths, and a heavier one with a shorter
\* codeword than a lighter one.
C29_Witness ==
  /\ hpc = "built"
  /\ NumSymbols = 4
  /\ \E a, b \in DOMAIN frequencies :
       frequencies[a] = frequencies[b] /\ Len(encodings[a]) < Len(encodings[b])
  /\ \E a, b \in DOMAIN frequencies :
       frequencies[a] > frequencies[b] /\ Len(encodings[a]) < Len(encodings[b])

\* C28: a call of decode that returns has taken from its iterator one bit
\* for every Inner node it went through and none at a Leaf, the passes for
\* the symbols sharing the one iterator; decode of what encode(values)
\* returned, with count values.len(), takes exactly the bits of the
\* encoding, and with more bits behind the encoding it still returns values
\* and takes none of the bits behind.
C28_BitsConsumed ==
  /\ (hpc \in {"decoded", "decode_done", "decoded_past"} /\ decoded.panic = "") =>
       consumed = Len(PathsOf(decode_tree, decoded.out))
  /\ hpc \in {"decoded", "decoded_past"} =>
       /\ decoded = Returned(values)
       /\ consumed = Len(encoded.out)
  /\ hpc = "decoded_past" =>
       /\ Len(in_bits) > Len(encoded.out)
       /\ SubSeq(in_bits, 1, Len(encoded.out)) = encoded.out

\* C28's case: decode of the encoding of two symbols, one of them with a
\* codeword of two bits or more, followed by one more bit.
C28_Witness ==
  /\ hpc = "decoded_past"
  /\ Len(values) = 2
  /\ values[1] # values[2]
  /\ Len(encodings[values[1]]) >= 2
  /\ Len(in_bits) = Len(encoded.out) + 1
  /\ decoded = Returned(values)

=============================================================================
